---- MODULE Spec2Model ----
(***************************************************************************)
(* A model of pst_to_markdown.py: the filename sanitizer, the item         *)
(* renderer (create_email_markdown), the attachment temp-file round trip,  *)
(* the folder walk with the unique path allocator (process_folder,         *)
(* generate_unique_filename), and the batch orchestrator (main,            *)
(* process_pst_file).                                                      *)
(*                                                                         *)
(* Each part has its own specification over its own variables; the         *)
(* variables of the other parts keep their idle values.                    *)
(*   SpecSanitize  sanitize_filename on bounded character strings          *)
(*   SpecRender    create_email_markdown on one mail item                  *)
(*   SpecTemp      two tasks extracting attachments through %TEMP%         *)
(*   SpecWalk      process_folder of the tasks over one output directory   *)
(*   Spec          main and process_pst_file over one Outlook session      *)
(***************************************************************************)
EXTENDS Integers, Sequences, FiniteSets, TLC

VARIABLES
    \* sanitize_filename: the call's arguments, its position and its result
    sname, smax, spc, sout,
    \* create_email_markdown: the mail item, the call's position, its result
    ritem, rpc, rout,
    \* attachment extraction of two tasks: the temp directory, and per task
    \* its item's attachments, its position, the attachment index, what it
    \* collected, and whether its extraction was aborted by an exception
    tdir, tatts, tpc, ti, tgot, tfailed,
    \* process_folder: the effective worker count; the output directory now
    \* and before the run; per task its position, its stack of process_folder
    \* frames, the email being written and the count returned; and the
    \* record of the run: the paths emails were written to, the items and
    \* folders read so far, per task the items its entered folders hold that
    \* it has not visited yet and the emails whose write completed, the
    \* attachment-less ones among all of those, and whether a write failed
    wworkers, wfs, wfs0, wpc, wstack, wcur, wresult,
    wowned, witems, wfolders, wleft, wdone, wplain, wfailed,
    \* main and process_pst_file: args.workers, the input archives, main's
    \* position, num_workers, results, the exit code, whether the summary was
    \* printed; the top-level folders of the Outlook session; per task its
    \* position, whether AddStore returned, pst_folder, the store RemoveStore
    \* was called on, the value returned, and whether main took the result
    mworkers, mfiles, mpc, mnum, mresults, mexit, msummary,
    mstores, ppc, pattached, pfolder, pdetach, pret, ptaken

sanVars == <<sname, smax, spc, sout>>

rndVars == <<ritem, rpc, rout>>

tmpVars == <<tdir, tatts, tpc, ti, tgot, tfailed>>

walkVars == <<wworkers, wfs, wfs0, wpc, wstack, wcur, wresult,
              wowned, witems, wfolders, wleft, wdone, wplain, wfailed>>

mainVars == <<mworkers, mfiles, mpc, mnum, mresults, mexit, msummary,
              mstores, ppc, pattached, pfolder, pdetach, pret, ptaken>>

vars == <<sanVars, rndVars, tmpVars, walkVars, mainVars>>

-----------------------------------------------------------------------------
(* Helpers                                                                 *)

Min(a, b) == IF a < b THEN a ELSE b

Max(a, b) == IF a > b THEN a ELSE b

\* All sequences over S of length at most n.
SeqUpTo(S, n) == UNION {[1..k -> S] : k \in 0..n}

-----------------------------------------------------------------------------
(* sanitize_filename (src/pst_to_markdown.py 38-46).  A string is a        *)
(* sequence of one-character strings.                                      *)

\* Longest name drawn from the alphabet, and largest max_length argument.
MaxNameLen == 3
MaxLenArg == 8

\* The default of the max_length parameter.
DefaultMaxLength == 100

\* invalid_chars = r'[<>:"/\\|?*\x00-\x1f]'; of the 32 control characters
\* \x00-\x1f the model names tab, line feed and carriage return.
InvalidChars == {"<", ">", ":", "\"", "/", "\\", "|", "?", "*", "\t", "\n", "\r"}

\* The characters strip('. _') and rstrip('. _') remove.
StripChars == {".", " ", "_"}

\* "unnamed"
Unnamed == <<"u", "n", "n", "a", "m", "e", "d">>

\* re.sub(invalid_chars, '_', name)
ReplaceInvalid(s) == [i \in 1..Len(s) |-> IF s[i] \in InvalidChars THEN "_" ELSE s[i]]

\* re.sub(r'_+', '_', sanitized): an underscore that follows an underscore is dropped.
RECURSIVE CollapseUnderscores(_)
CollapseUnderscores(s) ==
    IF Len(s) <= 1 THEN s
    ELSE IF s[1] = "_" /\ s[2] = "_" THEN CollapseUnderscores(Tail(s))
    ELSE <<s[1]>> \o CollapseUnderscores(Tail(s))

\* str.rstrip('. _')
RECURSIVE RStrip(_)
RStrip(s) ==
    IF s = <<>> THEN s
    ELSE IF s[Len(s)] \in StripChars THEN RStrip(SubSeq(s, 1, Len(s) - 1))
    ELSE s

\* str.lstrip('. _')
RECURSIVE LStrip(_)
LStrip(s) ==
    IF s = <<>> THEN s
    ELSE IF s[1] \in StripChars THEN LStrip(Tail(s))
    ELSE s

\* str.strip('. _')
Strip(s) == RStrip(LStrip(s))

\* Mutant of Truncate: the slice without the length test's effect (no truncation).
TruncateNone(s, max_length) == s

\* if len(sanitized) > max_length: sanitized = sanitized[:max_length].rstrip('. _')
Truncate(s, max_length) ==
    IF Len(s) > max_length THEN RStrip(SubSeq(s, 1, max_length)) ELSE s

\* return sanitized or "unnamed"
OrUnnamed(s) == IF s = <<>> THEN Unnamed ELSE s

SanitizeFilename(name, max_length) ==
    OrUnnamed(Truncate(Strip(CollapseUnderscores(ReplaceInvalid(name))), max_length))

\* The characters names are drawn from: a plain one, the three stripped
\* ones, and one invalid one.
SanAlphabet == {"a", ".", " ", "_", "<"}

\* Names longer than the placeholder, so that a max_length of 7 or more truncates.
LongNames ==
    { <<"a", "a", "a", "a", "a", "a", "a", "a", "a">>,
      <<"a", "b", "c", "d", "e", "f", "g", ".", "h">>,
      <<"a", "a", "a", "a", "a", "a", "_", "<", "a">> }

SanNames == SeqUpTo(SanAlphabet, MaxNameLen) \cup LongNames

SanInit ==
    /\ sname \in SanNames
    /\ smax \in 0..MaxLenArg
    /\ spc = "call"
    /\ sout = <<>>

SanIdle ==
    /\ sname = <<>>
    /\ smax = 0
    /\ spc = "idle"
    /\ sout = <<>>

RndIdle ==
    /\ ritem = <<>>
    /\ rpc = "idle"
    /\ rout = <<>>

TmpIdle ==
    /\ tdir = <<>>
    /\ tatts = <<>>
    /\ tpc = <<>>
    /\ ti = <<>>
    /\ tgot = <<>>
    /\ tfailed = <<>>

WalkIdle ==
    /\ wworkers = 0
    /\ wfs = <<>>
    /\ wfs0 = <<>>
    /\ wpc = <<>>
    /\ wstack = <<>>
    /\ wcur = <<>>
    /\ wresult = <<>>
    /\ wowned = {}
    /\ witems = 0
    /\ wfolders = 0
    /\ wleft = <<>>
    /\ wdone = <<>>
    /\ wplain = 0
    /\ wfailed = FALSE

MainIdle ==
    /\ mworkers = 0
    /\ mfiles = <<>>
    /\ mpc = "idle"
    /\ mnum = 0
    /\ mresults = <<>>
    /\ mexit = -1
    /\ msummary = FALSE
    /\ mstores = <<>>
    /\ ppc = <<>>
    /\ pattached = <<>>
    /\ pfolder = <<>>
    /\ pdetach = <<>>
    /\ pret = <<>>
    /\ ptaken = <<>>

\* The call sanitize_filename(sname, smax).
Sanitize ==
    /\ spc = "call"
    /\ sout' = SanitizeFilename(sname, smax)
    /\ spc' = "done"
    /\ UNCHANGED <<sname, smax>>

SanNext == Sanitize /\ UNCHANGED <<rndVars, tmpVars, walkVars, mainVars>>

InitSanitize == SanInit /\ RndIdle /\ TmpIdle /\ WalkIdle /\ MainIdle

SpecSanitize == InitSanitize /\ [][SanNext]_vars

-----------------------------------------------------------------------------
(* create_email_markdown (src/pst_to_markdown.py 131-210) and the          *)
(* formatters it calls.  A mail item is a record of what each accessor of  *)
(* the COM object does: "fail" (the accessor raises), "empty" (None or     *)
(* ""), or a value.  Text is a sequence of one-character strings.          *)

\* Most attachments of one mail item.
MaxAtts == 2

DigitChars == <<"0", "1", "2", "3", "4", "5", "6", "7", "8", "9">>

\* str(n) for n >= 0
RECURSIVE Decimal(_)
Decimal(n) ==
    IF n < 10 THEN <<DigitChars[n + 1]>>
    ELSE Decimal(n \div 10) \o <<DigitChars[(n % 10) + 1]>>

\* Values the accessors return when they return one.
SubjectText == <<"H", "i", "?">>
SenderNameText == <<"B", "o", "b">>
SenderAddrLocal == <<"b", "o", "b">>
SenderAddrDomain == <<"x", ".", "y">>
RecipientsText == <<"A", "n", "n">>
CCText == <<"C", "y">>
HtmlText == <<"<", "p", ">">>
HtmlAsMarkdown == <<"p">>
PlainText == <<"t", "x", "t">>
\* strftime("%Y-%m-%d") and strftime("%Y-%m-%d %H:%M:%S") of the item's time,
\* and of datetime.now()
ItemDate == <<"2", "0", "2", "0", "-", "0", "1", "-", "0", "2">>
ItemDateTime == ItemDate \o <<" ", "0", "3", ":", "0", "4", ":", "0", "5">>
NowDate == <<"2", "0", "2", "6", "-", "0", "1", "-", "0", "2">>
NowDateTime == NowDate \o <<" ", "0", "3", ":", "0", "4", ":", "0", "5">>
AttFileName == <<"a", ".", "t">>

\* What an accessor does: st is "fail" (it raises), "empty" (None or "") or
\* "ok" (it returns val).
Acc(st, val) == [st |-> st, val |-> val]

\* A sender string: form "angle" (Name <address>), "addr" (an address
\* without angle brackets) or "plain".
Sender(form, name, local, domain) ==
    [form |-> form, name |-> name, local |-> local, domain |-> domain]

\* extract_sender_name of a non-empty sender; the caller never passes an
\* empty one (line 139 substitutes "Unknown").
ExtractSenderName(sender) ==
    IF sender.form = "angle" THEN Strip(sender.name)
    ELSE IF sender.form = "addr" THEN sender.local
    ELSE Strip(sender.name)

\* The sender as the From row shows it.
SenderString(sender) ==
    IF sender.form = "angle"
    THEN sender.name \o <<" ", "<">> \o sender.local \o <<"@">> \o sender.domain \o <<">">>
    ELSE IF sender.form = "addr" THEN sender.local \o <<"@">> \o sender.domain
    ELSE sender.name

\* format_email_date: (filename_date, display_date).  The time is "none",
\* "datetime" (has strftime), "iso" (a parseable string) or "bad".
FormatEmailDate(received_time) ==
    IF received_time = "none" THEN <<NowDate, NowDateTime>>
    ELSE IF received_time \in {"datetime", "iso"} THEN <<ItemDate, ItemDateTime>>
    ELSE <<<<"u", "n", "k", "n", "o", "w", "n", "-", "d", "a", "t", "e">>,
           <<"U", "n", "k", "n", "o", "w", "n">>>>

\* html_to_markdown: the HTML body is "empty", "convFail" (md() raises) or
\* "ok"; the plain body is "empty" or "ok".
HtmlToMarkdown(html_body, plain_body) ==
    IF html_body.st = "ok" THEN HtmlAsMarkdown
    ELSE IF plain_body.st = "ok" THEN plain_body.val
    ELSE <<>>

\* format_recipients: "empty" is a falsy collection, "countFail" one whose
\* Count or Item raises inside the function.
FormatRecipients(recipients) ==
    IF recipients.st = "ok" THEN recipients.val ELSE <<>>

\* Mutant of OrEmpty: the accessor's failure is not caught.
OrEmptyUnguarded(acc) == acc

\* try: x = mail_item.F or ""  except Exception: pass   (CC, HTMLBody, Body)
OrEmpty(acc) == IF acc.st = "fail" THEN Acc("empty", <<>>) ELSE acc

\* The accessors read outside any inner try block, in the order they are
\* read; SenderEmailAddress is read only when SenderName is empty.
HeaderAccessors(item) ==
    <<item.Subject.st, item.SenderName.st,
      IF item.SenderName.st = "empty" THEN item.SenderEmailAddress.st ELSE "skipped",
      item.ReceivedTime, item.Recipients.st>>

HeaderNames == <<"Subject", "SenderName", "SenderEmailAddress", "ReceivedTime", "Recipients">>

\* Some accessor of lines 138-142 raises.
HeaderRaises(item) == \E i \in 1..5 : HeaderAccessors(item)[i] = "fail"

\* The first of them that does.
FirstHeaderFailure(item) ==
    HeaderNames[CHOOSE i \in 1..5 : /\ HeaderAccessors(item)[i] = "fail"
                                   /\ \A j \in 1..(i - 1) : HeaderAccessors(item)[j] # "fail"]

\* att.FileName or f"attachment_{i}", sanitized
AttachmentName(att, i) ==
    SanitizeFilename(
        IF att.FileName.st = "empty"
        THEN <<"a", "t", "t", "a", "c", "h", "m", "e", "n", "t", "_">> \o Decimal(i)
        ELSE att.FileName.val,
        DefaultMaxLength)

\* Mutant of OnAttachmentFailure: what was collected is dropped.
OnAttachmentFailureClear(acc) == [attachments |-> <<>>, links |-> <<>>]

\* except Exception: pass  (line 185): the lists keep what was appended.
OnAttachmentFailure(acc) == acc

\* The loop of lines 171-184 from attachment i on.  An attachment is
\* [FileName, outcome, data]: a failing FileName raises at line 173; outcome
\* "saveFail" raises in SaveAsFile, "readFail" in open/read, "unlinkFail" in
\* the finally block after the attachment was appended.
RECURSIVE ExtractFrom(_, _, _)
ExtractFrom(atts, i, acc) ==
    IF i > Len(atts) THEN acc
    ELSE IF atts[i].FileName.st = "fail" THEN OnAttachmentFailure(acc)
    ELSE IF atts[i].outcome \in {"saveFail", "readFail"} THEN OnAttachmentFailure(acc)
    ELSE LET name == AttachmentName(atts[i], i)
             appended == [attachments |-> Append(acc.attachments, <<name, atts[i].data>>),
                          links |-> Append(acc.links, name)]
         IN IF atts[i].outcome = "unlinkFail" THEN OnAttachmentFailure(appended)
            ELSE ExtractFrom(atts, i + 1, appended)

\* Lines 167-186; mail_item.Attachments or its Count may raise too.
ExtractAttachments(item) ==
    IF item.AttachmentsAccess = "fail"
    THEN OnAttachmentFailure([attachments |-> <<>>, links |-> <<>>])
    ELSE ExtractFrom(item.Attachments, 1, [attachments |-> <<>>, links |-> <<>>])

Row(tag, val) == [tag |-> tag, val |-> val]

\* The document, a sequence of its lines: the title, the four table rows,
\* the Attachments section (only with links), the Content section.
ComposeDocument(subject, sender, to, cc, date_display, links, body_md) ==
    <<Row("H1", subject), Row("From", sender), Row("To", to), Row("CC", cc),
      Row("Date", date_display)>>
    \o (IF links # <<>>
        THEN <<Row("H2", <<"Attachments">>)>> \o [i \in 1..Len(links) |-> Row("Link", links[i])]
        ELSE <<>>)
    \o <<Row("H2", <<"Content">>), Row("Body", body_md)>>

\* return "error_email", f"# Error Processing Email\n\nError: {e}", []
ErrorResult(e) ==
    [raised |-> FALSE,
     filename_base |-> <<"e", "r", "r", "o", "r", "_", "e", "m", "a", "i", "l">>,
     md_content |-> <<Row("H1", <<"Error Processing Email">>), Row("Error", <<e>>)>>,
     attachments |-> <<>>]

CreateEmailMarkdown(item) ==
    IF HeaderRaises(item) THEN ErrorResult(FirstHeaderFailure(item))
    ELSE LET subject == IF item.Subject.st = "empty"
                        THEN <<"N", "o", " ", "S", "u", "b", "j", "e", "c", "t">>
                        ELSE item.Subject.val
             sender == IF item.SenderName.st = "ok" THEN item.SenderName.val
                       ELSE IF item.SenderEmailAddress.st = "ok" THEN item.SenderEmailAddress.val
                       ELSE Sender("plain", <<"U", "n", "k", "n", "o", "w", "n">>, <<>>, <<>>)
             to_recipients == FormatRecipients(item.Recipients)
             cc_recipients == OrEmpty(item.CC)
             html_body == OrEmpty(item.HTMLBody)
             plain_body == OrEmpty(item.Body)
             dates == FormatEmailDate(item.ReceivedTime)
             sender_name == ExtractSenderName(sender)
             filename_base == SanitizeFilename(dates[1] \o <<"_">> \o sender_name \o <<"_">> \o subject,
                                               DefaultMaxLength)
             body_md == HtmlToMarkdown(html_body, plain_body)
             extracted == ExtractAttachments(item)
         IN  \* a failure no inner try block catches is caught at line 209
             IF "fail" \in {cc_recipients.st, html_body.st, plain_body.st}
             THEN ErrorResult("field")
             ELSE [raised |-> FALSE,
                   filename_base |-> filename_base,
                   md_content |-> ComposeDocument(subject, SenderString(sender), to_recipients,
                                                  cc_recipients.val, dates[2], extracted.links,
                                                  body_md),
                   attachments |-> extracted.attachments]

\* An accessor that fails, returns nothing, or returns val.
Accessors(val) == {Acc("fail", <<>>), Acc("empty", <<>>), Acc("ok", val)}

NoSender == Sender("plain", <<>>, <<>>, <<>>)

AttachmentInputs ==
    {[FileName |-> Acc("fail", <<>>), outcome |-> "ok", data |-> 0]}
    \cup {[FileName |-> Acc("empty", <<>>), outcome |-> "ok", data |-> 0]}
    \cup [FileName : {Acc("ok", AttFileName)},
          outcome : {"ok", "saveFail", "readFail", "unlinkFail"},
          data : {0}]

\* The attachments of an item, the payload of attachment i being i.
AttachmentLists ==
    {[i \in 1..Len(s) |-> [s[i] EXCEPT !.data = i]] : s \in SeqUpTo(AttachmentInputs, MaxAtts)}

MailItems ==
    [Subject : Accessors(SubjectText),
     SenderName : {Acc("fail", NoSender), Acc("empty", NoSender),
                   Acc("ok", Sender("angle", SenderNameText \o <<" ">>, SenderAddrLocal,
                                    SenderAddrDomain))},
     SenderEmailAddress : {Acc("fail", NoSender), Acc("empty", NoSender),
                           Acc("ok", Sender("addr", <<>>, SenderAddrLocal, SenderAddrDomain))},
     ReceivedTime : {"fail", "none", "datetime", "bad"},
     Recipients : Accessors(RecipientsText) \cup {Acc("countFail", <<>>)},
     CC : Accessors(CCText),
     HTMLBody : Accessors(HtmlText) \cup {Acc("convFail", <<>>)},
     Body : Accessors(PlainText),
     AttachmentsAccess : {"ok", "fail"},
     Attachments : AttachmentLists]

\* SenderEmailAddress is not read unless SenderName is empty, and no
\* attachment is read unless the collection is.
RndInit ==
    /\ ritem \in {it \in MailItems :
                    /\ it.AttachmentsAccess = "fail" => it.Attachments = <<>>
                    /\ it.SenderName.st # "empty" => it.SenderEmailAddress.st = "empty"}
    /\ rpc = "call"
    /\ rout = <<>>

\* The call create_email_markdown(ritem).
Render ==
    /\ rpc = "call"
    /\ rout' = CreateEmailMarkdown(ritem)
    /\ rpc' = IF rout'.raised THEN "raised" ELSE "returned"
    /\ UNCHANGED ritem

RndNext == Render /\ UNCHANGED <<sanVars, tmpVars, walkVars, mainVars>>

InitRender == RndInit /\ SanIdle /\ TmpIdle /\ WalkIdle /\ MainIdle

SpecRender == InitRender /\ [][RndNext]_vars

-----------------------------------------------------------------------------
(* The temp-file round trip of create_email_markdown (lines 175-184) run   *)
(* by two pool threads at once (main, lines 395-402).  Every task uses the *)
(* path TEMP/pst_extract_<att_filename>; tdir maps the file names present  *)
(* in TEMP to their contents.  The COM calls themselves succeed here, so   *)
(* an aborted extraction is one another task caused.                       *)

TempTasks == {1, 2}

\* The sanitized attachment filenames of the items.
TempNames == {"a.txt", "b.txt"}

\* The payload of attachment i of task t's item.
Payload(t, i) == 10 * t + i

\* The items' attachment lists: one or two attachments.
TempAttLists == UNION {[1..k -> TempNames] : k \in 1..2}

TempPath(name) == "pst_extract_" \o name

TmpInit ==
    /\ tdir = <<>>
    /\ tatts \in [TempTasks -> TempAttLists]
    /\ tpc = [t \in TempTasks |-> "save"]
    /\ ti = [t \in TempTasks |-> 1]
    /\ tgot = [t \in TempTasks |-> <<>>]
    /\ tfailed = [t \in TempTasks |-> FALSE]

CurTemp(t) == TempPath(tatts[t][ti[t]])

\* att.SaveAsFile(str(temp_path)): creates or overwrites the file.
TSave(t) ==
    /\ tpc[t] = "save"
    /\ tdir' = (CurTemp(t) :> Payload(t, ti[t])) @@ tdir
    /\ tpc' = [tpc EXCEPT ![t] = "read"]
    /\ UNCHANGED <<tatts, ti, tgot, tfailed>>

\* with open(temp_path, 'rb') as f: att_data = f.read(); the two appends.
\* A missing file raises FileNotFoundError, which the finally block handles
\* before the except of line 185 ends the extraction.
TRead(t) ==
    /\ tpc[t] = "read"
    /\ IF CurTemp(t) \in DOMAIN tdir
       THEN /\ tgot' = [tgot EXCEPT ![t] = Append(@, <<tatts[t][ti[t]], tdir[CurTemp(t)]>>)]
            /\ UNCHANGED tfailed
       ELSE /\ tfailed' = [tfailed EXCEPT ![t] = TRUE]
            /\ UNCHANGED tgot
    /\ tpc' = [tpc EXCEPT ![t] = "exists"]
    /\ UNCHANGED <<tdir, tatts, ti>>

\* Leaving the finally block: the exception in flight, if any, ends the
\* loop; otherwise the loop goes on to the next attachment.
AfterFinally(t, failed) ==
    IF failed THEN /\ tpc' = [tpc EXCEPT ![t] = "done"]
                   /\ UNCHANGED ti
    ELSE IF ti[t] < Len(tatts[t])
    THEN /\ tpc' = [tpc EXCEPT ![t] = "save"]
         /\ ti' = [ti EXCEPT ![t] = @ + 1]
    ELSE /\ tpc' = [tpc EXCEPT ![t] = "done"]
         /\ UNCHANGED ti

\* finally: if temp_path.exists():
TExists(t) ==
    /\ tpc[t] = "exists"
    /\ IF CurTemp(t) \in DOMAIN tdir
       THEN /\ tpc' = [tpc EXCEPT ![t] = "unlink"]
            /\ UNCHANGED ti
       ELSE AfterFinally(t, tfailed[t])
    /\ UNCHANGED <<tdir, tatts, tgot, tfailed>>

\* temp_path.unlink(): raises FileNotFoundError when the file is gone.
TUnlink(t) ==
    /\ tpc[t] = "unlink"
    /\ IF CurTemp(t) \in DOMAIN tdir
       THEN /\ tdir' = [n \in DOMAIN tdir \ {CurTemp(t)} |-> tdir[n]]
            /\ UNCHANGED tfailed
            /\ AfterFinally(t, tfailed[t])
       ELSE /\ tfailed' = [tfailed EXCEPT ![t] = TRUE]
            /\ UNCHANGED tdir
            /\ AfterFinally(t, TRUE)
    /\ UNCHANGED <<tatts, tgot>>

TmpSave == (\E t \in TempTasks : TSave(t)) /\ UNCHANGED <<sanVars, rndVars, walkVars, mainVars>>

TmpRead == (\E t \in TempTasks : TRead(t)) /\ UNCHANGED <<sanVars, rndVars, walkVars, mainVars>>

TmpExists == (\E t \in TempTasks : TExists(t)) /\ UNCHANGED <<sanVars, rndVars, walkVars, mainVars>>

TmpUnlink == (\E t \in TempTasks : TUnlink(t)) /\ UNCHANGED <<sanVars, rndVars, walkVars, mainVars>>

TmpNext == TmpSave \/ TmpRead \/ TmpExists \/ TmpUnlink

InitTemp == TmpInit /\ SanIdle /\ RndIdle /\ WalkIdle /\ MainIdle

SpecTemp == InitTemp /\ [][TmpNext]_vars

-----------------------------------------------------------------------------
(* process_folder (lines 231-275) and generate_unique_filename (lines      *)
(* 69-80), run by the tasks main starts (lines 390-402) over one output    *)
(* directory.  A file or directory name is a string, a path the sequence   *)
(* of names below the output root; the directory maps each path that       *)
(* exists to "file" or "dir".  What the COM objects hold is chosen when    *)
(* the code reads it: a folder's item count, an item's class, what         *)
(* create_email_markdown returns for it, whether a write goes through.     *)

\* The archives of the batch, one task each.
Archives == {1, 2}

\* Most items, and most folders, the archives of a batch hold together.
MaxItems == 2
MaxFolders == 3

\* str(counter) as a string
RECURSIVE DecimalString(_)
DecimalString(n) ==
    IF n < 10 THEN DigitChars[n + 1]
    ELSE DecimalString(n \div 10) \o DigitChars[(n % 10) + 1]

\* The while loop of generate_unique_filename from counter on.
RECURSIVE ProbeFrom(_, _, _, _)
ProbeFrom(fs, filename, extension, counter) ==
    LET new_path == <<filename \o "_" \o DecimalString(counter) \o extension>>
    IN IF new_path \notin DOMAIN fs THEN new_path
       ELSE ProbeFrom(fs, filename, extension, counter + 1)

\* Mutant of GenerateUniqueFilename: the existence test is left out.
GenerateUniqueFilenameNoTest(fs, filename, extension) == <<filename \o extension>>

\* generate_unique_filename(output_dir, filename, extension)
GenerateUniqueFilename(fs, filename, extension) ==
    LET full_path == <<filename \o extension>>
    IN IF full_path \notin DOMAIN fs THEN full_path
       ELSE ProbeFrom(fs, filename, extension, 1)

\* What create_email_markdown returns for the emails of the archives: the
\* filename base and the sanitized attachment filenames.  The last is the
\* error document.
Rendered ==
    { [base |-> "x", atts |-> <<>>],
      [base |-> "x_1", atts |-> <<>>],
      [base |-> "x", atts |-> <<"a.txt">>],
      [base |-> "x", atts |-> <<"a.txt", "a.txt">>],
      [base |-> "error_email", atts |-> <<>>] }

\* The output directory before the run.
NoFiles == <<>>
PreExisting == {NoFiles, (<<"x.md">> :> "file")}

NoEmail == [base |-> "", atts |-> <<>>, target |-> <<>>]

\* The frame of a process_folder call: the item loop's index and the items'
\* count, the subfolder loop's index and the subfolders' count, and the
\* local variable processed.  The subfolder loop starts when the item loop
\* is over.
NewFrame(n, m) == [i |-> 1, n |-> n, j |-> 1, m |-> m, processed |-> 0]

InItems(frame) == frame.i <= frame.n

InSubfolders(frame) == frame.i > frame.n /\ frame.j <= frame.m

AtReturn(frame) == frame.i > frame.n /\ frame.j > frame.m

Top(t) == wstack[t][Len(wstack[t])]

SetTop(t, frame) == [wstack EXCEPT ![t] = [@ EXCEPT ![Len(@)] = frame]]

WalkInit ==
    /\ wworkers \in 1..Cardinality(Archives)
    /\ wfs0 \in PreExisting
    /\ wfs = wfs0
    /\ wpc = [t \in Archives |-> "pending"]
    /\ wstack = [t \in Archives |-> <<>>]
    /\ wcur = [t \in Archives |-> NoEmail]
    /\ wresult = [t \in Archives |-> 0]
    /\ wowned = {}
    /\ witems = 0
    /\ wfolders = Cardinality(Archives)
    /\ wleft = [t \in Archives |-> 0]
    /\ wdone = [t \in Archives |-> 0]
    /\ wplain = 0
    /\ wfailed = FALSE

\* main: with one worker the archives are processed one after the other in
\* input order (lines 390-393); otherwise the pool runs at most num_workers
\* of them at once, taken in submission order (lines 395-399).
MayStart(t) ==
    /\ wpc[t] = "pending"
    /\ \A u \in Archives : u < t => wpc[u] # "pending"
    /\ IF wworkers = 1
       THEN \A u \in Archives : u < t => wpc[u] = "done"
       ELSE Cardinality({u \in Archives : wpc[u] \notin {"pending", "done"}}) < wworkers

\* process_folder is entered for a folder that holds n items and m
\* subfolders.  items = folder.Items; items.Count (lines 239-240): a failure
\* of either leaves the item loop without an iteration (line 265).
\* folder.Folders.Count (line 269): a failure leaves the subfolder loop
\* without an iteration (line 272).
EnterFolder(t, itemsOk, n, foldersOk, m) ==
    /\ witems + n <= MaxItems
    /\ wfolders + m <= MaxFolders
    /\ wstack' = [wstack EXCEPT ![t] = Append(@, NewFrame(IF itemsOk THEN n ELSE 0,
                                                          IF foldersOk THEN m ELSE 0))]
    /\ witems' = witems + n
    /\ wfolders' = wfolders + m
    /\ wleft' = [wleft EXCEPT ![t] = @ + (IF itemsOk THEN n ELSE 0)]

\* Some folder, with or without failing accessors, is entered.
EnterSomeFolder(t) ==
    \E itemsOk, foldersOk \in BOOLEAN, n \in 0..MaxItems, m \in 0..MaxFolders :
        EnterFolder(t, itemsOk, n, foldersOk, m)

\* process_folder(pst_folder, output_dir, pbar) is called on the root folder.
WStart(t) ==
    /\ MayStart(t)
    /\ EnterSomeFolder(t)
    /\ wpc' = [wpc EXCEPT ![t] = "walk"]
    /\ UNCHANGED <<wworkers, wfs, wfs0, wcur, wresult, wowned, wdone, wplain, wfailed>>

\* One iteration of the item loop for an item that is not written: the item
\* is not a mail item (line 243), or items.Item(i) or item.Class raises
\* (line 262).
WSkipItem(t) ==
    /\ wpc[t] = "walk"
    /\ InItems(Top(t))
    /\ \E kind \in {"other", "accessFail"} :
          wstack' = SetTop(t, [Top(t) EXCEPT !.i = @ + 1])
    /\ wleft' = [wleft EXCEPT ![t] = @ - 1]
    /\ UNCHANGED <<wworkers, wfs, wfs0, wpc, wcur, wresult, wowned, witems, wfolders,
                   wdone, wplain, wfailed>>

\* Lines 243-247 and 257 for a mail item: create_email_markdown returns r and
\* generate_unique_filename picks the target, a subdirectory when the email
\* has attachments and an .md file when it has none.
WRenderItem(t) ==
    /\ wpc[t] = "walk"
    /\ InItems(Top(t))
    /\ \E r \in Rendered :
          LET target == GenerateUniqueFilename(wfs, r.base, IF r.atts # <<>> THEN "" ELSE ".md")
          IN wcur' = [wcur EXCEPT ![t] = [base |-> r.base, atts |-> r.atts, target |-> target]]
    /\ wpc' = [wpc EXCEPT ![t] = "write"]
    /\ wleft' = [wleft EXCEPT ![t] = @ - 1]
    /\ UNCHANGED <<wworkers, wfs, wfs0, wstack, wresult, wowned, witems, wfolders, wdone,
                   wplain, wfailed>>

\* att_path.write_bytes(att_data) for each attachment, in order.
RECURSIVE WriteAttachments(_, _, _)
WriteAttachments(fs, dir, atts) ==
    IF atts = <<>> THEN fs
    ELSE WriteAttachments((<<dir[1], Head(atts)>> :> "file") @@ fs, dir, Tail(atts))

\* Lines 248-258: the directory after the writes and whether they all went
\* through.  outcome is "ok", "fail" (mkdir, or the open of write_text,
\* raises) or "partial" (a later write raises: the first attachment's, or
\* the write into the opened .md file).  mkdir(exist_ok=True) raises on an
\* existing file, and write_text raises on an existing directory.
WriteEmail(fs, cur, outcome) ==
    IF outcome = "fail" THEN [fs |-> fs, ok |-> FALSE]
    ELSE IF cur.atts # <<>>
    THEN IF cur.target \in DOMAIN fs /\ fs[cur.target] = "file"
         THEN [fs |-> fs, ok |-> FALSE]
         ELSE LET made == (cur.target :> "dir") @@ fs
                  withMd == (<<cur.target[1], cur.base \o ".md">> :> "file") @@ made
              IN IF outcome = "partial" THEN [fs |-> withMd, ok |-> FALSE]
                 ELSE [fs |-> WriteAttachments(withMd, cur.target, cur.atts), ok |-> TRUE]
    ELSE IF cur.target \in DOMAIN fs /\ fs[cur.target] = "dir"
         THEN [fs |-> fs, ok |-> FALSE]
         ELSE [fs |-> (cur.target :> "file") @@ fs, ok |-> outcome = "ok"]

\* Mutant of CountItem: a failed item is counted too.
CountItemAlways(processed, ok) == processed + 1

\* processed += 1 (line 260), which an exception in lines 242-258 skips.
CountItem(processed, ok) == IF ok THEN processed + 1 ELSE processed

\* Lines 248-264: the writes of the current email, and the loop's next index.
WWrite(t) ==
    /\ wpc[t] = "write"
    /\ \E outcome \in {"ok", "fail", "partial"} :
          LET w == WriteEmail(wfs, wcur[t], outcome)
          IN /\ wfs' = w.fs
             /\ wstack' = SetTop(t, [Top(t) EXCEPT !.i = @ + 1,
                                                   !.processed = CountItem(@, w.ok)])
             /\ wowned' = IF w.ok THEN wowned \cup {wcur[t].target} ELSE wowned
             /\ wdone' = [wdone EXCEPT ![t] = IF w.ok THEN @ + 1 ELSE @]
             /\ wplain' = IF w.ok /\ wcur[t].atts = <<>> THEN wplain + 1 ELSE wplain
             /\ wfailed' = (wfailed \/ ~w.ok)
    /\ wpc' = [wpc EXCEPT ![t] = "walk"]
    /\ wcur' = [wcur EXCEPT ![t] = NoEmail]
    /\ UNCHANGED <<wworkers, wfs0, wresult, witems, wfolders, wleft>>

\* One iteration of the subfolder loop (lines 270-271): folder.Folders.Item(i)
\* raises, which ends the loop (line 272), or process_folder is called on
\* the subfolder.
WSubfolder(t) ==
    /\ wpc[t] = "walk"
    /\ InSubfolders(Top(t))
    /\ \/ /\ wstack' = SetTop(t, [Top(t) EXCEPT !.j = Top(t).m + 1])
          /\ UNCHANGED <<witems, wfolders, wleft>>
       \/ EnterSomeFolder(t)
    /\ UNCHANGED <<wworkers, wfs, wfs0, wpc, wcur, wresult, wowned, wdone, wplain, wfailed>>

\* Mutant of AddReturned: the subfolder's count is dropped.
AddReturnedNone(processed, returned) == processed

\* processed += process_folder(subfolder, output_dir, pbar)  (line 271)
AddReturned(processed, returned) == processed + returned

\* return processed (line 275): to the caller's subfolder loop, or to
\* process_pst_file.
WReturn(t) ==
    /\ wpc[t] = "walk"
    /\ AtReturn(Top(t))
    /\ IF Len(wstack[t]) > 1
       THEN LET caller == wstack[t][Len(wstack[t]) - 1]
                rest == SubSeq(wstack[t], 1, Len(wstack[t]) - 1)
            IN /\ wstack' = [wstack EXCEPT ![t] =
                                [rest EXCEPT ![Len(rest)] =
                                    [caller EXCEPT !.j = @ + 1,
                                                   !.processed = AddReturned(@, Top(t).processed)]]]
               /\ UNCHANGED <<wpc, wresult>>
       ELSE /\ wstack' = [wstack EXCEPT ![t] = <<>>]
            /\ wresult' = [wresult EXCEPT ![t] = Top(t).processed]
            /\ wpc' = [wpc EXCEPT ![t] = "done"]
    /\ UNCHANGED <<wworkers, wfs, wfs0, wcur, wowned, witems, wfolders, wleft, wdone, wplain,
                   wfailed>>

walkOthers == <<sanVars, rndVars, tmpVars, mainVars>>

WalkStart == (\E t \in Archives : WStart(t)) /\ UNCHANGED walkOthers

WalkSkipItem == (\E t \in Archives : WSkipItem(t)) /\ UNCHANGED walkOthers

WalkRenderItem == (\E t \in Archives : WRenderItem(t)) /\ UNCHANGED walkOthers

WalkWrite == (\E t \in Archives : WWrite(t)) /\ UNCHANGED walkOthers

WalkSubfolder == (\E t \in Archives : WSubfolder(t)) /\ UNCHANGED walkOthers

WalkReturn == (\E t \in Archives : WReturn(t)) /\ UNCHANGED walkOthers

WalkNext ==
    \/ WalkStart
    \/ WalkSkipItem
    \/ WalkRenderItem
    \/ WalkWrite
    \/ WalkSubfolder
    \/ WalkReturn

InitWalk == WalkInit /\ SanIdle /\ RndIdle /\ TmpIdle /\ MainIdle

SpecWalk == InitWalk /\ [][WalkNext]_vars

-----------------------------------------------------------------------------
(* main (lines 336-417) and process_pst_file (lines 278-333).  An input    *)
(* archive is [exists, fate]: whether the file exists at main's check, and *)
(* what then goes wrong while it is handled.  A store is named by the      *)
(* index of its archive; NoStore stands for None.  Every task's Dispatch   *)
(* reaches the one Outlook application, so the tasks see one list of       *)
(* top-level folders.                                                      *)

\* Most input archives; the -w values run from -MaxBelowZero to MaxWorkers.
MaxFiles == 2
MaxWorkers == 3
MaxBelowZero == 1

NoStore == 0

\* What can go wrong with an archive that existed at main's check:
\*   vanished      the file is gone at line 285
\*   mkdirFail     output_dir.mkdir raises (line 291)
\*   dispatchFail  Dispatch or GetNamespace raises (lines 294-295)
\*   addStoreFail  AddStore raises (line 297)
\*   foldersFail   namespace.Folders.Count raises (line 300)
\*   noFolders     the session shows no top-level folder (lines 300, 311)
\*   pathMismatch  no folder's Store.FilePath resolves to the archive's path
\*   removeFail    RemoveStore raises (line 326)
Fates ==
    {"ok", "vanished", "mkdirFail", "dispatchFail", "addStoreFail", "foldersFail",
     "noFolders", "pathMismatch", "removeFail"}

InputArchives == {[exists |-> FALSE, fate |-> "ok"]} \cup [exists : {TRUE}, fate : Fates]

Tasks == 1..Len(mfiles)

\* The emails process_folder writes for the folder of a store.
EmailsIn(store) == store

Attached(store) == \E k \in 1..Len(mstores) : mstores[k] = store

MainInit ==
    /\ mworkers \in -MaxBelowZero..MaxWorkers
    /\ mfiles \in UNION {[1..k -> InputArchives] : k \in 1..MaxFiles}
    /\ mpc = "start"
    /\ mnum = 0
    /\ mresults = <<>>
    /\ mexit = -1
    /\ msummary = FALSE
    /\ mstores = <<>>
    /\ ppc = [t \in 1..Len(mfiles) |-> "pending"]
    /\ pattached = [t \in 1..Len(mfiles) |-> FALSE]
    /\ pfolder = [t \in 1..Len(mfiles) |-> NoStore]
    /\ pdetach = [t \in 1..Len(mfiles) |-> NoStore]
    /\ pret = [t \in 1..Len(mfiles) |-> [count |-> 0, error |-> "none"]]
    /\ ptaken = [t \in 1..Len(mfiles) |-> FALSE]

\* num_workers = min(args.workers, len(pst_files))   (line 383)
NumWorkers(workers, count) == Min(workers, count)

\* Lines 373-390: sys.exit(1) when an input file does not exist; otherwise
\* num_workers is computed and main takes the sequential or the pool branch.
MainStart ==
    /\ mpc = "start"
    /\ IF \E i \in 1..Len(mfiles) : ~mfiles[i].exists
       THEN /\ mexit' = 1
            /\ mpc' = "exited"
            /\ UNCHANGED mnum
       ELSE /\ mnum' = NumWorkers(mworkers, Len(mfiles))
            /\ mpc' = IF mnum' = 1 THEN "sequential" ELSE "pool"
            /\ UNCHANGED mexit
    /\ UNCHANGED <<mworkers, mfiles, mresults, msummary, mstores, ppc, pattached, pfolder,
                   pdetach, pret, ptaken>>

\* ThreadPoolExecutor(max_workers=num_workers) (line 395) raises ValueError
\* when num_workers <= 0: the exception leaves main and the interpreter
\* exits with code 1.  Otherwise every archive is submitted (lines 396-399).
MainPool ==
    /\ mpc = "pool"
    /\ IF mnum <= 0
       THEN mexit' = 1 /\ mpc' = "exited"
       ELSE mpc' = "running" /\ UNCHANGED mexit
    /\ UNCHANGED <<mworkers, mfiles, mnum, mresults, msummary, mstores, ppc, pattached,
                   pfolder, pdetach, pret, ptaken>>

\* A task may take a step: in the loop of lines 391-393 the archives are
\* handled one after the other; the pool runs at most num_workers tasks at
\* once, in submission order, and goes on running them while main unwinds.
MayRun(t) ==
    \/ /\ mpc = "sequential"
       /\ \A u \in Tasks : u < t => ppc[u] = "returned"
    \/ /\ mpc \in {"running", "unwinding"}
       /\ \A u \in Tasks : u < t => ppc[u] # "pending"
       /\ \/ ppc[t] # "pending"
          \/ Cardinality({u \in Tasks : ppc[u] \notin {"pending", "returned", "raised"}}) < mnum

\* process_pst_file returns (pst_name, count, error).  In the sequential
\* loop main appends it to results at once (line 393).
Return(t, count, error) ==
    /\ ppc' = [ppc EXCEPT ![t] = "returned"]
    /\ pret' = [pret EXCEPT ![t] = [count |-> count, error |-> error]]
    /\ IF mpc = "sequential"
       THEN /\ mresults' = Append(mresults, [archive |-> t, count |-> count, error |-> error])
            /\ ptaken' = [ptaken EXCEPT ![t] = TRUE]
       ELSE UNCHANGED <<mresults, ptaken>>
    /\ UNCHANGED <<mpc, mexit>>

\* An exception leaves process_pst_file.  In the sequential loop it leaves
\* main too: the interpreter exits with code 1.
Raise(t) ==
    /\ ppc' = [ppc EXCEPT ![t] = "raised"]
    /\ IF mpc = "sequential"
       THEN mpc' = "exited" /\ mexit' = 1
       ELSE UNCHANGED <<mpc, mexit>>
    /\ UNCHANGED <<pret, mresults, ptaken>>

\* Lines 283-297: the existence test, output_dir.mkdir (outside the try
\* block), Dispatch, GetNamespace and AddStore.
PStart(t) ==
    /\ ppc[t] = "pending"
    /\ MayRun(t)
    /\ LET fate == mfiles[t].fate IN
       IF fate = "vanished" THEN Return(t, 0, "File not found") /\ UNCHANGED <<mstores, pattached>>
       ELSE IF fate = "mkdirFail" THEN Raise(t) /\ UNCHANGED <<mstores, pattached>>
       ELSE IF fate \in {"dispatchFail", "addStoreFail"}
       THEN Return(t, 0, fate) /\ UNCHANGED <<mstores, pattached>>
       ELSE /\ mstores' = Append(mstores, t)
            /\ pattached' = [pattached EXCEPT ![t] = TRUE]
            /\ ppc' = [ppc EXCEPT ![t] = "locate"]
            /\ UNCHANGED <<pret, mresults, ptaken, mpc, mexit>>
    /\ UNCHANGED <<mworkers, mfiles, mnum, msummary, pfolder, pdetach>>

\* Lines 299-314: the first top-level folder whose store path is the
\* archive's, else the last top-level folder, else None.
LocateFolder(t) ==
    IF mfiles[t].fate = "noFolders" THEN NoStore
    ELSE IF mfiles[t].fate # "pathMismatch" /\ Attached(t) THEN t
    ELSE IF mstores # <<>> THEN mstores[Len(mstores)]
    ELSE NoStore

\* Lines 299-317.
PLocate(t) ==
    /\ ppc[t] = "locate"
    /\ MayRun(t)
    /\ IF mfiles[t].fate = "foldersFail"
       THEN Return(t, 0, "foldersFail") /\ UNCHANGED pfolder
       ELSE IF LocateFolder(t) = NoStore
       THEN Return(t, 0, "Could not locate PST folder in Outlook") /\ UNCHANGED pfolder
       ELSE /\ pfolder' = [pfolder EXCEPT ![t] = LocateFolder(t)]
            /\ ppc' = [ppc EXCEPT ![t] = "process"]
            /\ UNCHANGED <<pret, mresults, ptaken, mpc, mexit>>
    /\ UNCHANGED <<mworkers, mfiles, mnum, msummary, mstores, pattached, pdetach>>

\* Lines 319-323: count_emails_in_folder and process_folder, neither of
\* which raises; a folder whose store is gone yields no item.
PProcess(t) ==
    /\ ppc[t] = "process"
    /\ MayRun(t)
    /\ pret' = [pret EXCEPT ![t].count = IF Attached(pfolder[t]) THEN EmailsIn(pfolder[t]) ELSE 0]
    /\ ppc' = [ppc EXCEPT ![t] = "detach"]
    /\ UNCHANGED <<mworkers, mfiles, mpc, mnum, mresults, mexit, msummary, mstores, pattached,
                   pfolder, pdetach, ptaken>>

\* Lines 325-330: RemoveStore(pst_folder), whose failure is swallowed, and
\* the return of the result.
PDetach(t) ==
    /\ ppc[t] = "detach"
    /\ MayRun(t)
    /\ pdetach' = [pdetach EXCEPT ![t] = pfolder[t]]
    /\ mstores' = IF mfiles[t].fate = "removeFail" THEN mstores
                  ELSE SelectSeq(mstores, LAMBDA st : st # pfolder[t])
    /\ Return(t, pret[t].count, "none")
    /\ UNCHANGED <<mworkers, mfiles, mnum, msummary, pattached, pfolder>>

\* Lines 401-402: as_completed yields a finished future and future.result()
\* returns its result or raises its exception.  The exception leaves the
\* with block, whose exit waits for the tasks still running.
MainCollect(t) ==
    /\ mpc = "running"
    /\ ppc[t] \in {"returned", "raised"}
    /\ ~ptaken[t]
    /\ ptaken' = [ptaken EXCEPT ![t] = TRUE]
    /\ IF ppc[t] = "returned"
       THEN /\ mresults' = Append(mresults, [archive |-> t, count |-> pret[t].count,
                                            error |-> pret[t].error])
            /\ UNCHANGED mpc
       ELSE /\ mpc' = "unwinding"
            /\ UNCHANGED mresults
    /\ UNCHANGED <<mworkers, mfiles, mnum, mexit, msummary, mstores, ppc, pattached, pfolder,
                   pdetach, pret>>

\* The with block's exit has waited for every task; the exception leaves
\* main and the interpreter exits with code 1.
MainCrash ==
    /\ mpc = "unwinding"
    /\ \A t \in Tasks : ppc[t] \in {"returned", "raised"}
    /\ mpc' = "exited"
    /\ mexit' = 1
    /\ UNCHANGED <<mworkers, mfiles, mnum, mresults, msummary, mstores, ppc, pattached,
                   pfolder, pdetach, pret, ptaken>>

\* Lines 404-417: every result is in; the summary is printed and main
\* returns, so the exit code is 0.
MainSummary ==
    /\ mpc \in {"sequential", "running"}
    /\ \A t \in Tasks : ptaken[t]
    /\ msummary' = TRUE
    /\ mexit' = 0
    /\ mpc' = "exited"
    /\ UNCHANGED <<mworkers, mfiles, mnum, mresults, mstores, ppc, pattached, pfolder,
                   pdetach, pret, ptaken>>

mainOthers == <<sanVars, rndVars, tmpVars, walkVars>>

Start == MainStart /\ UNCHANGED mainOthers

Pool == MainPool /\ UNCHANGED mainOthers

TaskStart == (\E t \in Tasks : PStart(t)) /\ UNCHANGED mainOthers

TaskLocate == (\E t \in Tasks : PLocate(t)) /\ UNCHANGED mainOthers

TaskProcess == (\E t \in Tasks : PProcess(t)) /\ UNCHANGED mainOthers

TaskDetach == (\E t \in Tasks : PDetach(t)) /\ UNCHANGED mainOthers

Collect == (\E t \in Tasks : MainCollect(t)) /\ UNCHANGED mainOthers

Crash == MainCrash /\ UNCHANGED mainOthers

Summary == MainSummary /\ UNCHANGED mainOthers

Next ==
    \/ Start
    \/ Pool
    \/ TaskStart
    \/ TaskLocate
    \/ TaskProcess
    \/ TaskDetach
    \/ Collect
    \/ Crash
    \/ Summary

Init == MainInit /\ SanIdle /\ RndIdle /\ TmpIdle /\ WalkIdle

Spec == Init /\ [][Next]_vars

\* The four table rows, in the document's order.
TableRows(doc) == SelectSeq([i \in 1..Len(doc) |-> doc[i].tag],
                            LAMBDA t : t \in {"From", "To", "CC", "Date"})

HasFourRows(doc) == TableRows(doc) = <<"From", "To", "CC", "Date">>

HasAttachmentsSection(doc) ==
    \E i \in 1..Len(doc) : doc[i].tag = "H2" /\ doc[i].val = <<"Attachments">>

IsErrorDocument(doc) == doc[1].val = <<"Error Processing Email">>

\* C4 as stated: create_email_markdown never raises and, whichever accessors
\* fail or are empty, the document holds the rows From, To, CC, Date in order.
C4_Original ==
    rpc # "call" => (rpc = "returned" /\ HasFourRows(rout.md_content))

\* C4 as amended: create_email_markdown never raises; the document holds the
\* rows From, To, CC, Date in that order whenever the accessors read outside
\* an inner try block (Subject, SenderName, SenderEmailAddress when SenderName
\* is empty, ReceivedTime, Recipients) do not raise, whichever of CC,
\* HTMLBody, Body and Attachments fail or are empty; when one of those raises
\* the result is ("error_email", the error document, []), without the table.
C4_Amended ==
    rpc # "call" =>
        /\ rpc = "returned"
        /\ ~HeaderRaises(ritem) => HasFourRows(rout.md_content)
        /\ HeaderRaises(ritem) =>
              /\ IsErrorDocument(rout.md_content)
              /\ TableRows(rout.md_content) = <<>>
              /\ rout.attachments = <<>>

\* An item whose CC, HTMLBody, Body and Attachments accessors all raise was
\* rendered with its table.
C4_Witness ==
    /\ rpc = "returned"
    /\ ritem.CC.st = "fail" /\ ritem.HTMLBody.st = "fail" /\ ritem.Body.st = "fail"
    /\ ritem.AttachmentsAccess = "fail"
    /\ ritem.Subject.st = "empty"
    /\ HasFourRows(rout.md_content)

\* The attachment whose extraction fails first at line 173, 177 or 178-179
\* (0 when none does).
FailsToExtract(att) ==
    att.FileName.st = "fail" \/ att.outcome \in {"saveFail", "readFail"}

FirstFailing(atts) ==
    IF \E i \in 1..Len(atts) : FailsToExtract(atts[i])
    THEN CHOOSE i \in 1..Len(atts) : /\ FailsToExtract(atts[i])
                                     /\ \A j \in 1..(i - 1) : ~FailsToExtract(atts[j])
    ELSE 0

\* The extraction got as far as the attachment that fails: no earlier
\* attachment failed to be deleted from the temp directory.
ReachesFailure(atts) ==
    /\ FirstFailing(atts) > 0
    /\ \A j \in 1..(FirstFailing(atts) - 1) : atts[j].outcome = "ok"

\* C6 as stated: if the extraction of one attachment fails, the returned
\* attachments list is empty and the document has no Attachments section,
\* and the item is rendered as a normal document.
C6_Original ==
    (rpc = "returned" /\ ~HeaderRaises(ritem) /\ ReachesFailure(ritem.Attachments)) =>
        /\ rout.attachments = <<>>
        /\ ~HasAttachmentsSection(rout.md_content)
        /\ ~IsErrorDocument(rout.md_content)

\* C6 as amended: if the extraction of attachment j fails (reading its
\* filename, saving it, or reading it back), extraction stops there and the
\* returned list holds exactly the j-1 attachments extracted before it, in
\* order, each with its own payload; the document has an Attachments section
\* exactly when j > 1, with one link per returned attachment; the item is
\* rendered as a normal document, not the error document.
C6_Amended ==
    (rpc = "returned" /\ ~HeaderRaises(ritem) /\ ReachesFailure(ritem.Attachments)) =>
        LET j == FirstFailing(ritem.Attachments) IN
        /\ Len(rout.attachments) = j - 1
        /\ \A i \in 1..(j - 1) :
              rout.attachments[i] = <<AttachmentName(ritem.Attachments[i], i), i>>
        /\ HasAttachmentsSection(rout.md_content) <=> j > 1
        /\ Len(SelectSeq(rout.md_content, LAMBDA r : r.tag = "Link")) = j - 1
        /\ ~IsErrorDocument(rout.md_content)
        /\ HasFourRows(rout.md_content)

\* The second attachment failed after the first was extracted.
C6_Witness ==
    /\ rpc = "returned"
    /\ ~HeaderRaises(ritem)
    /\ ReachesFailure(ritem.Attachments)
    /\ FirstFailing(ritem.Attachments) = 2
    /\ Len(rout.attachments) = 1

\* The tasks that hold a path generate_unique_filename returned and have
\* not written to it yet.
Holding == {t \in Archives : wpc[t] = "write"}

\* Every input file exists at main's check (lines 374-377).
AllExist == \A i \in 1..Len(mfiles) : mfiles[i].exists

\* C1 as stated, for the worker counts the pool accepts (C2 is about the
\* others): when every input file exists at the check, a failure while one
\* archive is handled never stops the batch; main ends with exactly one
\* result per input archive, the summary printed, and exit code 0.
C1_Original ==
    (mpc = "exited" /\ AllExist /\ mworkers >= 1) =>
        /\ mexit = 0
        /\ msummary
        /\ Len(mresults) = Len(mfiles)
        /\ \A t \in Tasks : Cardinality({k \in 1..Len(mresults) : mresults[k].archive = t}) = 1

\* C2 as stated: for every requested worker count and every non-empty list
\* of existing archives, main's effective worker count is
\* max(1, min(N, input_count)), and every archive is processed.
C2_Original ==
    (mpc \notin {"start", "idle"} /\ AllExist) =>
        /\ mnum = Max(1, Min(mworkers, Len(mfiles)))
        /\ mpc = "exited" => \A t \in Tasks : ppc[t] # "pending"

\* C5 as stated: whenever process_pst_file is left after AddStore returned,
\* RemoveStore was attempted, on the store that was attached.
C5_Original ==
    \A t \in Tasks :
        (ppc[t] \in {"returned", "raised"} /\ pattached[t]) => pdetach[t] = t

\* C3 as stated: for every worker count and every interleaving, the path
\* generate_unique_filename returns for an email is never a path that
\* existed before, nor one given to another email of the run (one that
\* holds it, or was written to it): no two emails are written to the same
\* .md file or subdirectory and no earlier output is overwritten.
C3_Original ==
    \A t \in Holding :
        /\ wcur[t].target \notin DOMAIN wfs0
        /\ wcur[t].target \notin wowned
        /\ \A u \in Holding \ {t} : wcur[u].target # wcur[t].target

\* C3 as amended: with a single worker, the path generate_unique_filename
\* returns for an email does not exist, from its return until the email is
\* written: it is neither a path that existed before the run nor one an
\* earlier email of the run was written to, so no two processed emails are
\* written to the same .md file or subdirectory and nothing is overwritten.
C3_Amended ==
    wworkers = 1 =>
        \A t \in Holding :
            /\ wcur[t].target \notin DOMAIN wfs
            /\ wcur[t].target \notin DOMAIN wfs0
            /\ wcur[t].target \notin wowned

\* With one worker, an email was given the suffixed path x_1.md because an
\* earlier email of the run had been written to x.md.
C3_Witness ==
    /\ wworkers = 1
    /\ wfs0 = NoFiles
    /\ <<"x.md">> \in wowned
    /\ \E t \in Holding : wcur[t].base = "x" /\ wcur[t].target = <<"x_1.md">>

\* The files in the subdirectory dir of the output directory.
FilesUnder(fs, dir) == {p \in DOMAIN fs : Len(p) = 2 /\ p[1] = dir[1]}

\* C7 as stated: an email with k >= 1 attachments whose writes all succeed
\* gets one new subdirectory, which then holds exactly k+1 files, and
\* counts as 1 processed.
C7_Original ==
    [][\A t \in Archives :
          (wpc[t] = "write" /\ wcur[t].atts # <<>> /\ wdone'[t] = wdone[t] + 1) =>
              /\ wcur[t].target \notin DOMAIN wfs
              /\ wfs'[wcur[t].target] = "dir"
              /\ Cardinality(FilesUnder(wfs', wcur[t].target)) = Len(wcur[t].atts) + 1
              /\ Top(t)'.processed = Top(t).processed + 1]_vars

\* The .md files directly in the output directory.
RootFiles(fs) == {p \in DOMAIN fs : Len(p) = 1 /\ fs[p] = "file"}

\* C8: process_folder returns exactly the number of mail items of the
\* subtree for which create_email_markdown returned and every write
\* completed (an item rendered as the error document included); an item
\* that fails is not counted and every other item of the entered folders is
\* still visited; with one worker and no failed write, the output directory
\* gains exactly one .md file per attachment-less email processed.
C8_Theorem ==
    /\ \A t \in Archives :
          wpc[t] = "done" => (wresult[t] = wdone[t] /\ wleft[t] = 0)
    /\ (wworkers = 1 /\ ~wfailed) =>
          Cardinality(RootFiles(wfs)) = Cardinality(RootFiles(wfs0)) + wplain

\* With one worker, the first archive's walk returned 1 after one email's
\* write failed and another email with the same base was written to x_1.md.
C8_Witness ==
    /\ wworkers = 1
    /\ wfs0 = NoFiles
    /\ wpc[1] = "done"
    /\ wresult[1] = 1
    /\ wfailed
    /\ <<"x.md">> \in DOMAIN wfs
    /\ <<"x_1.md">> \in wowned

\* C10 as stated: with more than one worker, under every interleaving, the
\* bytes a task collects for an attachment are that attachment's own payload
\* and no task's extraction is made to fail by another task.
C10_Original ==
    \A t \in TempTasks :
        /\ ~tfailed[t]
        /\ \A k \in 1..Len(tgot[t]) : tgot[t][k] = <<tatts[t][k], Payload(t, k)>>
        /\ tpc[t] = "done" => Len(tgot[t]) = Len(tatts[t])

\* C9 as stated: for every name and every max_length >= 0 the result is
\* non-empty and at most max_length characters long.
C9_Original ==
    spc = "done" => (Len(sout) >= 1 /\ Len(sout) <= smax)

\* C9 as amended: the result is never empty, and it is at most max_length
\* characters long unless it is the 7-character placeholder "unnamed"; so
\* the length bound holds whenever max_length >= 7.
C9_Amended ==
    spc = "done" =>
        /\ Len(sout) >= 1
        /\ (sout = Unnamed \/ Len(sout) <= smax)
        /\ (smax >= Len(Unnamed) => Len(sout) <= smax)

\* A call that truncated a name longer than max_length to a proper result.
C9_Witness ==
    /\ spc = "done"
    /\ Len(Strip(CollapseUnderscores(ReplaceInvalid(sname)))) > smax
    /\ sout # Unnamed
    /\ Len(sout) < smax
    /\ smax >= Len(Unnamed)

====
